---------------------------- MODULE Spec2Model ----------------------------
(***************************************************************************)
(* Grameler: a FUSE filesystem whose file tree lives in a relational       *)
(* metadata store (tables File and TelegramDocument) and whose file        *)
(* content lives as documents in a remote chat.                            *)
(*                                                                         *)
(* Strings are sequences of one-character strings, so that the path        *)
(* arithmetic of the handlers (split, join, slicing) is computed the way   *)
(* the code computes it.  Bytes are small naturals; 0 is the zero byte.    *)
(***************************************************************************)
EXTENDS Integers, Sequences, FiniteSets

VARIABLES
    files,      \* table File: id -> row
    docs,       \* table TelegramDocument: id -> row
    blobs,      \* the remote document store: telegram id (index) -> bytes
    tempfiles,  \* self.tempfiles: insertion-ordered dict, path -> inner dict
    regions,    \* heap of the inner dicts {'file', 'lastwrite'} of tempfiles
    wcall,      \* the FUSE thread's position inside write()
    dpc,        \* the daemon thread's position inside upload_files_daemon()
    temp_copy,  \* the daemon's local temp_copy
    di,         \* the daemon's position in its iteration over temp_copy
    dnow,       \* the daemon's reading of datetime.datetime.now() at line 289
    clock,      \* datetime.datetime.now(), in units of 1 / ClockUnits second
    uploads,    \* history of the documents handed to _upload_file by the daemon
    written,    \* history of the write() calls that returned
    result      \* the last filesystem call and its outcome

dbVars == <<files, docs, blobs>>
stagingVars == <<tempfiles, regions, wcall, dpc, temp_copy, di, dnow, clock, uploads,
                 written>>
vars == <<files, docs, blobs, tempfiles, regions, wcall, dpc, temp_copy, di,
          dnow, clock, uploads, written, result>>

---------------------------------------------------------------------------
(* Bounds of the model.                                                    *)

\* the largest rowid table File hands out
MaxFileId == 3
\* the largest rowid of table File while the attribute operations are explored
MaxAttrFileId == 2
\* write() calls of a run that draws each call's buffer and offset freely
MaxWrites == 2
\* advances of the clock
MaxTicks == 2
\* documents the remote store may hold before truncate stops adding to it
MaxBlobs == 3
\* write() calls of a run that also renames, truncates and unlinks
MaxReadWrites == 1
\* seconds one advance of the clock adds
TickSeconds == 11
\* units of the clock in one second; every write() call takes one unit
ClockUnits == 4

\* self._tgchunk_size, scaled down from 20 MiB
tgchunk_size == 2
\* the idle threshold of the daemon, in seconds
IdleSeconds == 10
\* timedelta.seconds is the remainder modulo one day
DaySeconds == 86400

---------------------------------------------------------------------------
(* Strings.                                                                *)

Max(S) == CHOOSE x \in S : \A y \in S : y <= x
Min(S) == CHOOSE x \in S : \A y \in S : x <= y

RECURSIVE SplitAcc(_, _, _)
SplitAcc(s, cur, acc) ==
    IF s = <<>> THEN Append(acc, cur)
    ELSE IF Head(s) = "/" THEN SplitAcc(Tail(s), <<>>, Append(acc, cur))
    ELSE SplitAcc(Tail(s), Append(cur, Head(s)), acc)

\* str.split('/')
split(path) == SplitAcc(path, <<>>, <<>>)

\* '/'.join(parts)
RECURSIVE join_slash(_)
join_slash(parts) ==
    IF Len(parts) = 0 THEN <<>>
    ELSE IF Len(parts) = 1 THEN parts[1]
    ELSE parts[1] \o <<"/">> \o join_slash(Tail(parts))

\* seq[:-1]
ButLast(s) == IF Len(s) = 0 THEN s ELSE SubSeq(s, 1, Len(s) - 1)
\* seq[-1] of a non-empty sequence
Last(s) == s[Len(s)]

\* list(filter(None, parts))
RECURSIVE filter_none(_)
filter_none(parts) ==
    IF Len(parts) = 0 THEN <<>>
    ELSE IF Head(parts) = <<>> THEN filter_none(Tail(parts))
    ELSE <<Head(parts)>> \o filter_none(Tail(parts))

\* the file names and the absolute paths the kernel hands to the handlers
Names == { <<"a">>, <<"a", "b">> }
RootPath == <<"/">>
EmptyPath == <<>>
NamedPaths == { <<"/">> \o n : n \in Names }
                 \cup { <<"/">> \o n \o <<"/">> \o m : n \in Names, m \in Names }
Paths == {RootPath} \cup NamedPaths

---------------------------------------------------------------------------
(* The metadata store.                                                     *)

None == 0
OK == [err |-> "OK", data |-> <<>>]
Err(e) == [err |-> e, data |-> <<>>]

\* what a handler's call left: the call (its name, and for read its path,
\* length and offset), the error it raised or "OK", and the bytes it returned
Outcome(call, v) == [call |-> call, err |-> v.err, data |-> v.data]

\* File.get_or_none(File.name == name, File.parent_file == parent_id): the
\* first row in rowid order
get_or_none(name, parent_id) ==
    LET hits == { i \in DOMAIN files :
                    files[i].name = name /\ files[i].parent_file = parent_id }
    IN  IF hits = {} THEN None ELSE Min(hits)

RECURSIVE WalkNames(_, _, _)
WalkNames(names, parent_id, ids) ==
    IF Len(names) = 0 THEN [err |-> "OK", ids |-> ids]
    ELSE LET f == get_or_none(Head(names), parent_id)
         IN  IF f = None THEN [err |-> "ENOENT", ids |-> <<>>]
             ELSE WalkNames(Tail(names), f, Append(ids, f))

\* Grameler._get_path_ids
get_path_ids(path) == WalkNames(filter_none(split(path)), 1, <<1>>)

\* the id SQLite gives the next row of a table: the largest rowid plus one
next_rowid(table) == IF DOMAIN table = {} THEN 1 ELSE Max(DOMAIN table) + 1

\* INSERT of a row
insert_row(table, row) ==
    [i \in DOMAIN table \cup {next_rowid(table)} |->
        IF i \in DOMAIN table THEN table[i] ELSE row]

\* DELETE ... WHERE id = file_id
delete_row(table, id) == [i \in DOMAIN table \ {id} |-> table[i]]

\* f.files: the rows whose parent_file is f
children(id) == { i \in DOMAIN files : files[i].parent_file = id }

\* the row File.__init__ creates, with the defaults of database.py;
\* created_at is the clock's reading
new_file(name, parent, size, is_dir, mode, uid, gid) ==
    [name |-> name, parent_file |-> parent, size |-> size,
     is_directory |-> is_dir, mode |-> mode, owner |-> <<uid, gid>>,
     sym_link |-> <<>>, created_at |-> 0, times |-> <<"now", "now">>]

\* os.getuid(), os.getgid()
Getuid == 1000

\* the row Grameler.__init__ gets or creates
RootRow == new_file(<<"$">>, None, 512, TRUE, 16895, Getuid, Getuid)

---------------------------------------------------------------------------
(* Construction.                                                           *)

\* grameler.sqlite as database.py creates it and __init__ fills it: table
\* File holds the root, table TelegramDocument is empty.  No statement the
\* handlers can reach inserts a TelegramDocument row (write() returns at
\* line 306, before line 321), so every later mount finds the table empty too
FreshFiles == [i \in {1} |-> RootRow]
NoRows == [i \in {} |-> 0]

IdleCall == [pc |-> "idle", path |-> <<>>, buf |-> <<>>, offset |-> 0, rid |-> 0]

\* Grameler.__init__ on the database database.py opens
Init ==
    /\ files = FreshFiles
    /\ docs = NoRows
    /\ blobs = <<>>
    /\ tempfiles = <<>>
    /\ regions = <<>>
    /\ wcall = IdleCall
    /\ dpc = "copy"
    /\ temp_copy = <<>>
    /\ di = 0
    /\ dnow = 0
    /\ clock = 0
    /\ uploads = <<>>
    /\ written = <<>>
    /\ result = Outcome(<<"__init__">>, OK)

---------------------------------------------------------------------------
(* Filesystem methods.  FUSE runs them one at a time (nothreads=True), so  *)
(* each starts only while no write() call is in progress.                  *)

FuseIdle == wcall.pc = "idle"

\* File.update(...).where(File.id == file_id).execute()
update_row(id, row) ==
    IF id \in DOMAIN files THEN [files EXCEPT ![id] = row] ELSE files

\* Grameler.access
Access(path) ==
    /\ FuseIdle
    /\ result' = Outcome(<<"access">>, Err(get_path_ids(path).err))
    /\ UNCHANGED <<dbVars, stagingVars>>

\* Grameler.chmod
Chmod(path, mode) ==
    LET r == get_path_ids(path) IN
    /\ FuseIdle
    /\ IF r.err # "OK"
       THEN result' = Outcome(<<"chmod">>, Err("ENOENT")) /\ UNCHANGED files
       ELSE /\ result' = Outcome(<<"chmod">>, OK)
            /\ files' = IF Last(r.ids) \in DOMAIN files
                        THEN update_row(Last(r.ids), [files[Last(r.ids)] EXCEPT !.mode = mode])
                        ELSE files
    /\ UNCHANGED <<docs, blobs, stagingVars>>

\* Grameler.chown
Chown(path, uid, gid) ==
    LET r == get_path_ids(path) IN
    /\ FuseIdle
    /\ IF r.err # "OK"
       THEN result' = Outcome(<<"chown">>, Err("ENOENT")) /\ UNCHANGED files
       ELSE /\ result' = Outcome(<<"chown">>, OK)
            /\ files' = IF Last(r.ids) \in DOMAIN files
                        THEN update_row(Last(r.ids), [files[Last(r.ids)] EXCEPT !.owner = <<uid, gid>>])
                        ELSE files
    /\ UNCHANGED <<docs, blobs, stagingVars>>

\* a rmdir that takes every directory for empty
has_children_never(id) == FALSE

\* f.files.count() > 0
has_children(id) == children(id) # {}

\* Grameler.rmdir
Rmdir(path) ==
    LET r == get_path_ids(path)
        file_id == Last(r.ids)
    IN
    /\ FuseIdle
    /\ IF r.err # "OK"
       THEN result' = Outcome(<<"rmdir">>, Err("ENOENT")) /\ UNCHANGED files
       ELSE IF file_id \notin DOMAIN files
       THEN result' = Outcome(<<"rmdir">>, Err("DoesNotExist")) /\ UNCHANGED files
       ELSE IF ~files[file_id].is_directory
       THEN result' = Outcome(<<"rmdir">>, Err("ENOTDIR")) /\ UNCHANGED files
       ELSE IF has_children(file_id)
       THEN result' = Outcome(<<"rmdir">>, Err("ENOTEMPTY")) /\ UNCHANGED files
       ELSE result' = Outcome(<<"rmdir">>, OK) /\ files' = delete_row(files, file_id)
    /\ UNCHANGED <<docs, blobs, stagingVars>>

\* Grameler.mkdir
Mkdir(path, mode) ==
    LET dirs == split(path)
        subpath == join_slash(ButLast(dirs))
        new_dir == Last(dirs)
        r == get_path_ids(subpath)
        file_id == Last(r.ids)
    IN
    /\ FuseIdle
    /\ next_rowid(files) <= MaxFileId
    /\ IF r.err # "OK"
       THEN result' = Outcome(<<"mkdir">>, Err("ENOENT")) /\ UNCHANGED files
       ELSE IF file_id \notin DOMAIN files
       THEN result' = Outcome(<<"mkdir">>, Err("DoesNotExist")) /\ UNCHANGED files
       ELSE /\ result' = Outcome(<<"mkdir">>, OK)
            /\ files' = insert_row(files,
                   [new_file(new_dir, file_id, 512, TRUE, 16877, Getuid, Getuid)
                        EXCEPT !.created_at = clock])
    /\ UNCHANGED <<docs, blobs, stagingVars>>

\* an unlink whose DELETE query is built and never executed
Unlink_unexecuted(path) ==
    LET r == get_path_ids(path) IN
    /\ FuseIdle
    /\ IF r.err # "OK"
       THEN result' = Outcome(<<"unlink">>, Err("ENOENT"))
       ELSE result' = Outcome(<<"unlink">>, OK)
    /\ UNCHANGED <<files, docs, blobs, stagingVars>>

\* Grameler.unlink
Unlink(path) ==
    LET r == get_path_ids(path) IN
    /\ FuseIdle
    /\ IF r.err # "OK"
       THEN result' = Outcome(<<"unlink">>, Err("ENOENT")) /\ UNCHANGED files
       ELSE result' = Outcome(<<"unlink">>, OK) /\ files' = delete_row(files, Last(r.ids))
    /\ UNCHANGED <<docs, blobs, stagingVars>>

\* Grameler.symlink
Symlink(src, dst) ==
    LET r == get_path_ids(src) IN
    /\ FuseIdle
    /\ IF r.err # "OK"
       THEN result' = Outcome(<<"symlink">>, Err("ENOENT")) /\ UNCHANGED files
       ELSE /\ result' = Outcome(<<"symlink">>, OK)
            /\ files' = IF Last(r.ids) \in DOMAIN files
                        THEN update_row(Last(r.ids), [files[Last(r.ids)] EXCEPT !.sym_link = dst])
                        ELSE files
    /\ UNCHANGED <<docs, blobs, stagingVars>>

\* subpath_new = '/'.join(dirs_new)[:-1]
rename_subpath(dirs_new) == ButLast(join_slash(dirs_new))

\* a rename that writes the new name before it resolves the new path
Rename_partial(old, new) ==
    LET dir_ids_org == get_path_ids(old)
        dirs_new == split(new)
        dir_ids_new == get_path_ids(rename_subpath(dirs_new))
        name_new == Last(dirs_new)
        org == Last(dir_ids_org.ids)
    IN
    /\ FuseIdle
    /\ IF dir_ids_org.err # "OK"
       THEN result' = Outcome(<<"rename">>, Err("ENOENT")) /\ UNCHANGED files
       ELSE IF org \notin DOMAIN files
       THEN result' = Outcome(<<"rename">>, Err("DoesNotExist")) /\ UNCHANGED files
       ELSE IF dir_ids_new.err # "OK"
       THEN /\ result' = Outcome(<<"rename">>, Err("ENOENT"))
            /\ files' = update_row(org, [files[org] EXCEPT !.name = name_new])
       ELSE /\ result' = Outcome(<<"rename">>, OK)
            /\ files' = update_row(org,
                   [files[org] EXCEPT !.name = name_new,
                                      !.parent_file = Last(dir_ids_new.ids)])
    /\ UNCHANGED <<docs, blobs, stagingVars>>

\* Grameler.rename
Rename(old, new) ==
    LET dir_ids_org == get_path_ids(old)
        dirs_new == split(new)
        dir_ids_new == get_path_ids(rename_subpath(dirs_new))
        name_new == Last(dirs_new)
        org == Last(dir_ids_org.ids)
    IN
    /\ FuseIdle
    /\ IF dir_ids_org.err # "OK" \/ dir_ids_new.err # "OK"
       THEN result' = Outcome(<<"rename">>, Err("ENOENT")) /\ UNCHANGED files
       ELSE IF org \notin DOMAIN files
       THEN result' = Outcome(<<"rename">>, Err("DoesNotExist")) /\ UNCHANGED files
       ELSE /\ result' = Outcome(<<"rename">>, OK)
            /\ files' = update_row(org,
                   [files[org] EXCEPT !.name = name_new,
                                      !.parent_file = Last(dir_ids_new.ids)])
    /\ UNCHANGED <<docs, blobs, stagingVars>>

\* Grameler.utimens; times = <<>> is times=None
Utimens(path, times) ==
    LET r == get_path_ids(path) IN
    /\ FuseIdle
    /\ IF times = <<>>
       THEN result' = Outcome(<<"utimens">>, OK) /\ UNCHANGED files
       ELSE IF r.err # "OK"
       THEN result' = Outcome(<<"utimens">>, Err("ENOENT")) /\ UNCHANGED files
       ELSE /\ result' = Outcome(<<"utimens">>, OK)
            /\ files' = IF Last(r.ids) \in DOMAIN files
                        THEN update_row(Last(r.ids), [files[Last(r.ids)] EXCEPT !.times = times])
                        ELSE files
    /\ UNCHANGED <<docs, blobs, stagingVars>>

\* Grameler.create
Create(path) ==
    LET dirs == split(path)
        subpath == join_slash(ButLast(dirs))
        filename == Last(dirs)
        r == get_path_ids(subpath)
    IN
    /\ FuseIdle
    /\ next_rowid(files) <= MaxFileId
    /\ IF r.err # "OK"
       THEN result' = Outcome(<<"create">>, Err("ENOENT")) /\ UNCHANGED files
       ELSE /\ result' = Outcome(<<"create">>, OK)
            /\ files' = insert_row(files,
                   [new_file(filename, Last(r.ids), 0, FALSE, 33188, 0, 0)
                        EXCEPT !.created_at = clock])
    /\ UNCHANGED <<docs, blobs, stagingVars>>

\* f.telegram_files: the chunk records of a file
telegram_files(file_id) == { d \in DOMAIN docs : docs[d].file_id = file_id }

\* Grameler.truncate.  nof_chunks = length / chunk size is a float: the test
\* len(telegram_files) < nof_chunks compares it as it is, and the queries on
\* the integer column file_no convert it with int()
Truncate(path, length) ==
    LET r == get_path_ids(path)
        file_id == Last(r.ids)
        nof_chunks == length \div tgchunk_size
        kept == { d \in DOMAIN docs :
                    ~(docs[d].file_id = file_id /\ docs[d].file_no > nof_chunks) }
        docs1 == [d \in kept |-> docs[d]]
        hits == { d \in kept : docs[d].file_id = file_id /\ docs[d].file_no = nof_chunks }
        last_file == Min(hits)
        telegram_id == docs[last_file].telegram_id
    IN
    /\ FuseIdle
    /\ Len(blobs) < MaxBlobs
    /\ IF r.err # "OK"
       THEN result' = Outcome(<<"truncate">>, Err("ENOENT")) /\ UNCHANGED dbVars
       ELSE IF file_id \notin DOMAIN files
       THEN result' = Outcome(<<"truncate">>, Err("DoesNotExist")) /\ UNCHANGED dbVars
       ELSE IF Cardinality(telegram_files(file_id)) * tgchunk_size < length
       THEN result' = Outcome(<<"truncate">>, OK) /\ UNCHANGED dbVars
       ELSE IF hits = {}
       THEN result' = Outcome(<<"truncate">>, Err("DoesNotExist")) /\ docs' = docs1 /\ UNCHANGED <<files, blobs>>
       ELSE IF telegram_id \notin 1..Len(blobs)
       THEN result' = Outcome(<<"truncate">>, Err("IOError")) /\ docs' = docs1 /\ UNCHANGED <<files, blobs>>
       ELSE \E sent \in BOOLEAN :
              IF sent
              THEN /\ blobs' = Append(blobs, blobs[telegram_id])
                   /\ docs' = [docs1 EXCEPT ![last_file].telegram_id = Len(blobs) + 1]
                   /\ files' = [files EXCEPT ![file_id].size = length]
                   /\ result' = Outcome(<<"truncate">>, OK)
              ELSE result' = Outcome(<<"truncate">>, Err("IOError")) /\ docs' = docs1 /\ UNCHANGED <<files, blobs>>
    /\ UNCHANGED stagingVars

---------------------------------------------------------------------------
(* The directory tree alone.                                               *)

NextTree ==
    \/ \E p \in Paths \cup {EmptyPath} : Access(p)
    \/ \E p \in NamedPaths : Mkdir(p, 493)
    \/ \E p \in NamedPaths : Create(p)
    \/ \E p \in NamedPaths, q \in NamedPaths : Rename(p, q)
    \/ \E p \in NamedPaths : Unlink(p)
    \/ \E p \in NamedPaths : Rmdir(p)

SpecTree == Init /\ [][NextTree]_vars

\* the subpath mkdir and create resolve: '/'.join(path.split('/')[:-1])
ParentPath(path) == join_slash(ButLast(split(path)))

\* every node's chain of parents ends at the root, which has no parent
RECURSIVE ClimbsToRoot(_, _)
ClimbsToRoot(i, n) ==
    IF i \notin DOMAIN files THEN FALSE
    ELSE IF i = 1 THEN files[1].parent_file = None
    ELSE IF n = 0 THEN FALSE
    ELSE ClimbsToRoot(files[i].parent_file, n - 1)

\* C6: rmdir on a directory that has a child fails with ENOTEMPTY and leaves
\* the metadata store as it was; rmdir on a directory without children
\* succeeds and removes the directory's node, and only that node.
C6_RmdirNotEmpty ==
    [][\A p \in NamedPaths :
         LET r == get_path_ids(p)
             d == Last(r.ids)
         IN  (Rmdir(p) /\ r.err = "OK" /\ d \in DOMAIN files /\ files[d].is_directory)
             => IF children(d) # {}
                THEN result'.err = "ENOTEMPTY" /\ files' = files /\ docs' = docs
                ELSE /\ result'.err = "OK"
                     /\ DOMAIN files' = DOMAIN files \ {d}
                     /\ \A i \in DOMAIN files' : files'[i] = files[i]]_vars

\* a rmdir has just refused a directory that still has a child
C6_Witness ==
    /\ result.err = "ENOTEMPTY"
    /\ \E d \in DOMAIN files : files[d].is_directory /\ children(d) # {}

\* C9: no two nodes share the same (parent, name) pair.
C9_SiblingNamesUnique ==
    \A i \in DOMAIN files, j \in DOMAIN files :
        (i # j) => ~(/\ files[i].parent_file = files[j].parent_file
                     /\ files[i].name = files[j].name)

\* C10: the parent graph is acyclic and every node is reachable from the
\* root: each node's chain of parents ends at the root.
C10_TreeIsRooted ==
    \A i \in DOMAIN files : ClimbsToRoot(i, Cardinality(DOMAIN files))

---------------------------------------------------------------------------
(* Every operation that resolves a path, on a store of MaxAttrFileId rows. *)

TruncateLengths == {0, 1, 3}

AttrRows == next_rowid(files) <= MaxAttrFileId

NextAttr ==
    \/ \E p \in Paths \cup {EmptyPath} : Access(p)
    \/ \E p \in NamedPaths : Chmod(p, 384)
    \/ \E p \in NamedPaths : Chown(p, 1, 1)
    \/ \E p \in NamedPaths : Rmdir(p)
    \/ \E p \in NamedPaths : AttrRows /\ Mkdir(p, 493)
    \/ \E p \in NamedPaths : AttrRows /\ Create(p)
    \/ \E p \in NamedPaths : Unlink(p)
    \/ \E p \in NamedPaths : Symlink(p, <<"/", "a">>)
    \/ \E p \in NamedPaths, q \in NamedPaths : Rename(p, q)
    \/ \E p \in NamedPaths, t \in { <<>>, <<"t1", "t2">> } : Utimens(p, t)
    \/ \E p \in NamedPaths, n \in TruncateLengths : Truncate(p, n)

SpecAttr == Init /\ [][NextAttr]_vars

\* the names of a path's components
names_of(path) == filter_none(split(path))

\* the path made of the first k components of a path
Prefix(path, k) ==
    IF k = 0 THEN <<>> ELSE <<"/">> \o join_slash(SubSeq(names_of(path), 1, k))

\* C7: resolution fails with ENOENT exactly when some component has no node
\* of that name under the parent resolved before it, and a resolved chain
\* links each component to its parent; an operation one of whose resolutions
\* fails ends with ENOENT and leaves the metadata store as it was; the empty
\* path resolves to the chain holding the root alone.
C7_FailedResolution ==
    [][/\ get_path_ids(EmptyPath) = [err |-> "OK", ids |-> <<1>>]
       /\ \A p \in Paths :
            LET r == get_path_ids(p)
                names == names_of(p)
            IN  /\ (r.err = "ENOENT") <=>
                      \E k \in 1..Len(names) :
                          /\ get_path_ids(Prefix(p, k - 1)).err = "OK"
                          /\ \A i \in DOMAIN files :
                                ~(/\ files[i].name = names[k]
                                  /\ files[i].parent_file
                                        = Last(get_path_ids(Prefix(p, k - 1)).ids))
                /\ (r.err = "OK") =>
                      /\ Len(r.ids) = Len(names) + 1
                      /\ r.ids[1] = 1
                      /\ \A k \in 1..Len(names) :
                            /\ files[r.ids[k + 1]].name = names[k]
                            /\ files[r.ids[k + 1]].parent_file = r.ids[k]
       /\ \A p \in NamedPaths :
            (/\ get_path_ids(p).err = "ENOENT"
             /\ \/ Chmod(p, 384) \/ Chown(p, 1, 1) \/ Rmdir(p) \/ Unlink(p)
                \/ Symlink(p, <<"/", "a">>) \/ Utimens(p, <<"t1", "t2">>)
                \/ \E n \in TruncateLengths : Truncate(p, n)
                \/ \E q \in NamedPaths : Rename(p, q))
            => (result'.err = "ENOENT" /\ dbVars' = dbVars)
       /\ \A p \in NamedPaths :
            (/\ get_path_ids(ParentPath(p)).err = "ENOENT"
             /\ (Mkdir(p, 493) \/ Create(p)))
            => (result'.err = "ENOENT" /\ dbVars' = dbVars)
       /\ \A p \in NamedPaths, q \in NamedPaths :
            (/\ get_path_ids(rename_subpath(split(q))).err = "ENOENT"
             /\ Rename(p, q))
            => (result'.err = "ENOENT" /\ dbVars' = dbVars)]_vars

\* an operation has just failed with ENOENT on a store that holds a node
\* besides the root
C7_Witness ==
    /\ result.err = "ENOENT"
    /\ \E i \in DOMAIN files : i # 1

---------------------------------------------------------------------------
(* Reading.                                                                *)

\* sorted(telegram_ids, key=telegram_ids.get) of the dict read() fills from
\* f.telegram_files: a key stands where its first record stood, its value is
\* the file_no of its last record, and the sort is stable
RECURSIVE sorted_telegram_ids(_, _)
sorted_telegram_ids(file_id, keys) ==
    IF keys = {} THEN <<>>
    ELSE LET recs(k) == { d \in telegram_files(file_id) : docs[d].telegram_id = k }
             value(k) == docs[Max(recs(k))].file_no
             first(k) == Min(recs(k))
             least == CHOOSE k \in keys : \A j \in keys :
                         \/ value(k) < value(j)
                         \/ value(k) = value(j) /\ first(k) <= first(j)
         IN  <<least>> \o sorted_telegram_ids(file_id, keys \ {least})

\* file_utils.join: the streams one after the other
RECURSIVE join(_)
join(fs) == IF Len(fs) = 0 THEN <<>> ELSE Head(fs) \o join(Tail(fs))

\* a read into a buffer of the requested length, zero where the file has
\* no byte
read_at_filled(content, offset, length) ==
    [i \in 1..length |-> IF offset + i <= Len(content) THEN content[offset + i] ELSE 0]

\* temp.seek(offset); temp.read(length)
read_at(content, offset, length) ==
    IF offset >= Len(content) THEN <<>>
    ELSE SubSeq(content, offset + 1,
                IF offset + length <= Len(content) THEN offset + length ELSE Len(content))

\* a read() that serves the bytes staged for the path when there are any
read_staged(path, length, offset) ==
    LET r == get_path_ids(path)
        file_id == Last(r.ids)
        hit == { i \in 1..Len(tempfiles) : tempfiles[i].path = path }
        telegram_ids == sorted_telegram_ids(file_id,
                            { docs[d].telegram_id : d \in telegram_files(file_id) })
    IN  IF r.err # "OK" THEN Err("ENOENT")
        ELSE IF file_id \notin DOMAIN files THEN Err("DoesNotExist")
        ELSE IF hit # {}
        THEN [err |-> "OK",
              data |-> read_at(regions[tempfiles[Min(hit)].rid].file, offset, length)]
        ELSE IF \E i \in 1..Len(telegram_ids) : telegram_ids[i] \notin 1..Len(blobs)
        THEN Err("IOError")
        ELSE [err |-> "OK",
              data |-> read_at(join([i \in 1..Len(telegram_ids) |-> blobs[telegram_ids[i]]]),
                               offset, length)]

\* what Grameler.read returns
read_value(path, length, offset) ==
    LET r == get_path_ids(path)
        file_id == Last(r.ids)
        telegram_ids == sorted_telegram_ids(file_id,
                            { docs[d].telegram_id : d \in telegram_files(file_id) })
    IN  IF r.err # "OK" THEN Err("ENOENT")
        ELSE IF file_id \notin DOMAIN files THEN Err("DoesNotExist")
        ELSE IF \E i \in 1..Len(telegram_ids) : telegram_ids[i] \notin 1..Len(blobs)
        THEN Err("IOError")
        ELSE [err |-> "OK",
              data |-> read_at(join([i \in 1..Len(telegram_ids) |-> blobs[telegram_ids[i]]]),
                               offset, length)]

\* Grameler.read
Read(path, length, offset) ==
    LET v == read_value(path, length, offset)
        file_id == Last(get_path_ids(path).ids)
    IN
    /\ FuseIdle
    /\ result' = Outcome(<<"read", path, length, offset>>, v)
    /\ files' = IF v.err = "OK"
                THEN [files EXCEPT ![file_id].times = <<"now", @[2]>>]
                ELSE files
    /\ UNCHANGED <<docs, blobs, stagingVars>>

---------------------------------------------------------------------------
(* Buffered writes: the FUSE thread inside write().                        *)

\* the position of path in self.tempfiles, 0 when it is no key
key_index(path) ==
    LET hit == { i \in 1..Len(tempfiles) : tempfiles[i].path = path }
    IN  IF hit = {} THEN 0 ELSE Min(hit)

\* file.write(buf) at the file's position: the gap up to the position is
\* filled with zero bytes; a write of no bytes leaves the file as it is
write_at(file, pos, buf) ==
    LET padded == file \o [i \in 1..(pos - Len(file)) |-> 0]
    IN  IF Len(buf) = 0 THEN file
        ELSE SubSeq(padded, 1, pos) \o buf
                 \o SubSeq(padded, pos + Len(buf) + 1, Len(padded))

\* the write() call in progress ends
Returned(err) ==
    /\ written' = Append(written, [path |-> wcall.path, buf |-> wcall.buf,
                                   offset |-> wcall.offset,
                                   rid |-> IF err = "OK" THEN wcall.rid ELSE 0,
                                   err |-> err])
    /\ result' = Outcome(<<"write">>, Err(err))
    /\ wcall' = IdleCall

\* write(), lines 301-302: a new inner dict for a path that is no key
WriteCall(path, buf, offset) ==
    /\ FuseIdle
    /\ IF key_index(path) = 0
       THEN /\ regions' = Append(regions,
                   [file |-> <<>>, pos |-> 0, lastwrite |-> -1, writes |-> {}])
            /\ tempfiles' = Append(tempfiles, [path |-> path, rid |-> Len(regions) + 1])
       ELSE UNCHANGED <<regions, tempfiles>>
    /\ wcall' = [pc |-> "lastwrite", path |-> path, buf |-> buf, offset |-> offset, rid |-> 0]
    /\ UNCHANGED <<dbVars, dpc, temp_copy, di, dnow, clock, uploads, written, result>>

\* write(), line 303: datetime.datetime.now() is evaluated, one unit after
\* every earlier reading of the clock, then self.tempfiles[path] is looked up
\* and 'lastwrite' is stored in it.  Nothing else writes 'lastwrite', so the
\* lookup and the store are one step
WriteLastwrite ==
    /\ wcall.pc = "lastwrite"
    /\ clock' = clock + 1
    /\ IF key_index(wcall.path) = 0
       THEN Returned("KeyError") /\ UNCHANGED regions
       ELSE /\ regions' = [regions EXCEPT
                   ![tempfiles[key_index(wcall.path)].rid].lastwrite = clock + 1]
            /\ wcall' = [wcall EXCEPT !.pc = "seek"]
            /\ UNCHANGED <<written, result>>
    /\ UNCHANGED <<dbVars, tempfiles, dpc, temp_copy, di, dnow, uploads>>

\* write(), line 304: self.tempfiles[path]['file'] is looked up
WriteSeekLookup ==
    /\ wcall.pc = "seek"
    /\ IF key_index(wcall.path) = 0
       THEN Returned("KeyError")
       ELSE /\ wcall' = [wcall EXCEPT !.pc = "seekpos",
                                      !.rid = tempfiles[key_index(wcall.path)].rid]
            /\ UNCHANGED <<written, result>>
    /\ UNCHANGED <<dbVars, tempfiles, regions, dpc, temp_copy, di, dnow, clock, uploads>>

\* write(), line 304: .seek(offset) on the file looked up; the reference to
\* the file is dropped
WriteSeek ==
    /\ wcall.pc = "seekpos"
    /\ regions' = [regions EXCEPT ![wcall.rid].pos = wcall.offset]
    /\ wcall' = [wcall EXCEPT !.pc = "lookup", !.rid = 0]
    /\ UNCHANGED <<dbVars, tempfiles, dpc, temp_copy, di, dnow, clock, uploads, written,
                   result>>

\* write(), line 305: self.tempfiles[path]['file'] is looked up
WriteLookup ==
    /\ wcall.pc = "lookup"
    /\ IF key_index(wcall.path) = 0
       THEN Returned("KeyError")
       ELSE /\ wcall' = [wcall EXCEPT !.pc = "write",
                                      !.rid = tempfiles[key_index(wcall.path)].rid]
            /\ UNCHANGED <<written, result>>
    /\ UNCHANGED <<dbVars, tempfiles, regions, dpc, temp_copy, di, dnow, clock, uploads>>

\* write(), line 305: .write(buf) on the file looked up, and the return
WriteBuf ==
    /\ wcall.pc = "write"
    /\ regions' = [regions EXCEPT ![wcall.rid] =
           [@ EXCEPT !.file = write_at(@, regions[wcall.rid].pos, wcall.buf),
                     !.pos = @ + Len(wcall.buf),
                     !.writes = @ \cup {Len(written) + 1}]]
    /\ Returned("OK")
    /\ UNCHANGED <<dbVars, tempfiles, dpc, temp_copy, di, dnow, clock, uploads>>

---------------------------------------------------------------------------
(* The daemon thread inside upload_files_daemon().                         *)

\* timedelta.seconds of a difference of d units: the difference less its
\* whole days (rounded down, so -1 day for a negative one), in whole seconds
seconds(d) == (d % (DaySeconds * ClockUnits)) \div ClockUnits

\* (datetime.datetime.now() - lastwrite).seconds > 10
is_idle(lastwrite) == seconds(dnow - lastwrite) > IdleSeconds

\* the next path of the for loop, or time.sleep(5) and the next round
NextPath ==
    IF di < Len(temp_copy)
    THEN di' = di + 1 /\ dpc' = "now"
    ELSE di' = 0 /\ dpc' = "copy"

\* line 287: temp_copy = self.tempfiles.copy()
DaemonCopy ==
    /\ dpc = "copy"
    /\ temp_copy' = tempfiles
    /\ IF Len(tempfiles) = 0
       THEN UNCHANGED <<dpc, di>>
       ELSE dpc' = "now" /\ di' = 1
    /\ UNCHANGED <<dbVars, tempfiles, regions, wcall, dnow, clock, uploads, written,
                   result>>

\* line 289: datetime.datetime.now(), the left operand, is evaluated first
DaemonNow ==
    /\ dpc = "now"
    /\ dnow' = clock
    /\ dpc' = "check"
    /\ UNCHANGED <<dbVars, tempfiles, regions, wcall, temp_copy, di, clock, uploads,
                   written, result>>

\* line 289: temp_copy[path]['lastwrite'] is read and the test is made; the
\* inner dict has no 'lastwrite' until line 303 has run.  The reading of the
\* clock is a temporary of the expression and is gone after the test
DaemonCheck ==
    LET lastwrite == regions[temp_copy[di].rid].lastwrite IN
    /\ dpc = "check"
    /\ dnow' = 0
    /\ IF lastwrite = -1
       THEN dpc' = "dead" /\ UNCHANGED di
       ELSE IF is_idle(lastwrite)
       THEN dpc' = "del" /\ UNCHANGED di
       ELSE NextPath
    /\ UNCHANGED <<dbVars, tempfiles, regions, wcall, temp_copy, clock, uploads, written,
                   result>>

\* lines 291-292
DaemonDel ==
    LET k == key_index(temp_copy[di].path) IN
    /\ dpc = "del"
    /\ IF k # 0
       THEN /\ tempfiles' = [i \in 1..(Len(tempfiles) - 1) |->
                                IF i < k THEN tempfiles[i] ELSE tempfiles[i + 1]]
            /\ dpc' = "seek"
            /\ UNCHANGED di
       ELSE NextPath /\ UNCHANGED tempfiles
    /\ UNCHANGED <<dbVars, regions, wcall, temp_copy, dnow, clock, uploads, written,
                   result>>

\* _upload_file, line 75: doc.seek(0)
DaemonSeek ==
    /\ dpc = "seek"
    /\ regions' = [regions EXCEPT ![temp_copy[di].rid].pos = 0]
    /\ dpc' = "send"
    /\ UNCHANGED <<dbVars, tempfiles, wcall, temp_copy, di, dnow, clock, uploads, written,
                   result>>

\* the document _upload_file hands to send_document: the file is read from
\* its position to its end
handed(rid) == SubSeq(regions[rid].file, regions[rid].pos + 1, Len(regions[rid].file))

\* a daemon that records each document it sent as chunk 0 of the file, in
\* place of the chunks recorded before, without merging the two
DaemonSend_recording ==
    LET rid == temp_copy[di].rid
        r == get_path_ids(temp_copy[di].path)
        f == Last(r.ids)
        others == { d \in DOMAIN docs : docs[d].file_id # f }
    IN
    /\ dpc = "send"
    /\ \E sent \in BOOLEAN :
          /\ uploads' = Append(uploads,
                 [path |-> temp_copy[di].path, rid |-> rid, file |-> handed(rid),
                  writes |-> regions[rid].writes, sent |-> sent])
          /\ IF sent
             THEN /\ blobs' = Append(blobs, handed(rid))
                  /\ docs' = IF r.err = "OK"
                             THEN insert_row([d \in others |-> docs[d]],
                                      [telegram_id |-> Len(blobs) + 1, file_id |-> f,
                                       file_no |-> 0])
                             ELSE docs
                  /\ NextPath
             ELSE dpc' = "dead" /\ UNCHANGED <<blobs, docs, di>>
    /\ regions' = [regions EXCEPT ![rid].pos =
                      IF @ > Len(regions[rid].file) THEN @ ELSE Len(regions[rid].file)]
    /\ UNCHANGED <<files, tempfiles, wcall, temp_copy, dnow, clock, written, result>>

\* _upload_file, line 76: send_document reads the file to its end; the
\* remote service takes the document, or the call raises and the thread ends
DaemonSend ==
    LET rid == temp_copy[di].rid IN
    /\ dpc = "send"
    /\ \E sent \in BOOLEAN :
          /\ uploads' = Append(uploads,
                 [path |-> temp_copy[di].path, rid |-> rid, file |-> handed(rid),
                  writes |-> regions[rid].writes, sent |-> sent])
          /\ IF sent
             THEN blobs' = Append(blobs, handed(rid)) /\ NextPath
             ELSE dpc' = "dead" /\ UNCHANGED <<blobs, di>>
    /\ regions' = [regions EXCEPT ![rid].pos =
                      IF @ > Len(regions[rid].file) THEN @ ELSE Len(regions[rid].file)]
    /\ UNCHANGED <<files, docs, tempfiles, wcall, temp_copy, dnow, clock, written, result>>

\* the advances of the clock so far
ticks == clock \div (TickSeconds * ClockUnits)

\* time passes, whatever the two threads are doing: a write() call may stand
\* between any two of its steps while the clock advances
Tick ==
    /\ ticks < MaxTicks
    /\ clock' = clock + (TickSeconds * ClockUnits)
    /\ UNCHANGED <<dbVars, tempfiles, regions, wcall, dpc, temp_copy, di, dnow, uploads,
                   written, result>>

---------------------------------------------------------------------------
(* Writes, the daemon and reads on one path.                               *)

WritePaths == { <<"/", "a">> }
WriteBufs == { <<1>>, <<2, 1, 2>> }
WriteOffsets == {0, 1}
ReadLengths == {3}
ReadOffsets == {0, 1}

FewWrites == Len(written) < MaxWrites

NextFlush ==
    \/ \E p \in WritePaths : AttrRows /\ Create(p)
    \/ \E p \in WritePaths, b \in WriteBufs, o \in WriteOffsets :
          FewWrites /\ WriteCall(p, b, o)
    \/ WriteLastwrite
    \/ WriteSeekLookup
    \/ WriteSeek
    \/ WriteLookup
    \/ WriteBuf
    \/ DaemonCopy
    \/ DaemonNow
    \/ DaemonCheck
    \/ DaemonDel
    \/ DaemonSeek
    \/ DaemonSend
    \/ Tick
    \/ \E p \in WritePaths, n \in ReadLengths, o \in ReadOffsets : Read(p, n, o)
    \/ \E p \in WritePaths : Truncate(p, 1)

SpecFlush == Init /\ [][NextFlush]_vars

\* the whole program
Next == NextTree \/ NextAttr \/ NextFlush

Spec == Init /\ [][Next]_vars

\* the region (inner dict) rid is still to be handed to _upload_file: it is
\* a value of self.tempfiles, or the daemon has removed it and not sent it yet
Pending(rid) ==
    \/ \E i \in 1..Len(tempfiles) : tempfiles[i].rid = rid
    \/ dpc \in {"seek", "send"} /\ temp_copy[di].rid = rid

\* C1: after create(path) of a new file, one write(path, B, 0) and the
\* daemon's completed flush of the path's staging region, read(path, len(B), 0)
\* returns exactly B.
C1_RoundTrip ==
    \A p \in WritePaths :
        LET r == get_path_ids(p)
            f == Last(r.ids)
        IN  (/\ r.err = "OK" /\ f \in DOMAIN files /\ ~files[f].is_directory
             /\ FuseIdle
             /\ Len(written) = 1
             /\ written[1].path = p /\ written[1].offset = 0 /\ written[1].err = "OK"
             /\ files[f].created_at < regions[written[1].rid].lastwrite
             /\ key_index(p) = 0
             /\ \E u \in 1..Len(uploads) :
                   uploads[u].sent /\ uploads[u].path = p /\ 1 \in uploads[u].writes)
            => read_value(p, Len(written[1].buf), 0)
                   = [err |-> "OK", data |-> written[1].buf]

\* C2: whatever the interleaving of write() with the daemon, every write call
\* ends without error and its bytes are in exactly one region handed to
\* _upload_file: in no more than one, and when in none yet, in a region that
\* is still to be handed.
C2_AtomicHandoff ==
    \A w \in 1..Len(written) :
        LET ups == { u \in 1..Len(uploads) : w \in uploads[u].writes } IN
        /\ written[w].err = "OK"
        /\ Cardinality(ups) <= 1
        /\ (ups = {}) => Pending(written[w].rid)

\* C3: a staging region whose upload failed is still held in the active set
\* for a later flush attempt.
C3_FailedUploadKeepsBytes ==
    \A u \in 1..Len(uploads) :
        ~uploads[u].sent =>
            \E i \in 1..Len(tempfiles) :
                /\ tempfiles[i].path = uploads[u].path
                /\ tempfiles[i].rid = uploads[u].rid
                /\ regions[tempfiles[i].rid].file = uploads[u].file

\* C4: every document handed to the remote store, by the daemon or by
\* truncate, is at most one chunk long, and staged content longer than one
\* chunk is recorded as chunks 0, 1, ... of the file.
C4_UploadWithinChunk ==
    /\ \A u \in 1..Len(uploads) : Len(uploads[u].file) <= tgchunk_size
    /\ \A b \in 1..Len(blobs) : Len(blobs[b]) <= tgchunk_size
    /\ \A u \in 1..Len(uploads) :
          LET r == get_path_ids(uploads[u].path)
              n == (Len(uploads[u].file) + tgchunk_size - 1) \div tgchunk_size
          IN  (uploads[u].sent /\ r.err = "OK" /\ Len(uploads[u].file) > tgchunk_size)
              => \A k \in 0..(n - 1) :
                    \E d \in telegram_files(Last(r.ids)) : docs[d].file_no = k

\* the chunk records of a set in the order of their file_no, records of one
\* file_no in rowid order
RECURSIVE ByFileNo(_)
ByFileNo(S) ==
    IF S = {} THEN <<>>
    ELSE LET d == CHOOSE x \in S : \A y \in S :
                     \/ docs[x].file_no < docs[y].file_no
                     \/ docs[x].file_no = docs[y].file_no /\ x <= y
         IN  <<d>> \o ByFileNo(S \ {d})

\* the flushed content of a file: the blobs of its chunk records, in the
\* order of their file_no
FlushedContent(file_id) ==
    LET recs == ByFileNo(telegram_files(file_id))
    IN  join([i \in 1..Len(recs) |-> blobs[docs[recs[i]].telegram_id]])

\* C5: a read on a path that has a live, unflushed staging region returns
\* bytes that the metadata store and the blob store determine: the window of
\* the file's flushed content, whatever is staged.
C5_ReadSeesFlushedOnly ==
    [][\A p \in WritePaths, n \in ReadLengths, o \in ReadOffsets :
         LET r == get_path_ids(p)
             f == Last(r.ids)
         IN  (/\ Read(p, n, o)
              /\ key_index(p) # 0
              /\ r.err = "OK" /\ f \in DOMAIN files
              /\ \A d \in telegram_files(f) : docs[d].telegram_id \in 1..Len(blobs))
             => /\ result'.err = "OK"
                /\ result'.data = read_at(FlushedContent(f), o, n)]_vars

\* a read has returned the flushed bytes of a path, none, while other bytes
\* are staged for the path inside the window read
C5_Witness ==
    \E p \in WritePaths :
        /\ FuseIdle
        /\ get_path_ids(p).err = "OK"
        /\ key_index(p) # 0
        /\ result.call[1] = "read"
        /\ result.err = "OK"
        /\ result.call[2] = p
        /\ result.data = read_at(FlushedContent(Last(get_path_ids(p).ids)),
                                 result.call[4], result.call[3])
        /\ result.data # read_at(regions[tempfiles[key_index(p)].rid].file,
                                 result.call[4], result.call[3])

---------------------------------------------------------------------------
(* The directory tree with the root path and the empty path as arguments.  *)

NextRoot ==
    \/ \E p \in Paths \cup {EmptyPath} : Access(p)
    \/ \E p \in NamedPaths : Mkdir(p, 493)
    \/ \E p \in NamedPaths : Create(p)
    \/ \E p \in Paths \cup {EmptyPath}, q \in Paths \cup {EmptyPath} : Rename(p, q)
    \/ \E p \in Paths \cup {EmptyPath} : Unlink(p)
    \/ \E p \in Paths \cup {EmptyPath} : Rmdir(p)

SpecRoot == Init /\ [][NextRoot]_vars

\* C11: the root node (id 1) exists, is a directory named as __init__ named
\* it and has no parent, and it is the only node without a parent.
C11_RootIsFixed ==
    /\ 1 \in DOMAIN files
    /\ files[1].is_directory
    /\ files[1].name = RootRow.name
    /\ files[1].parent_file = None
    /\ \A i \in DOMAIN files : files[i].parent_file = None => i = 1

---------------------------------------------------------------------------
(* Truncation.                                                             *)

\* ceil(n / chunk size)
chunks_needed(n) == (n + tgchunk_size - 1) \div tgchunk_size

\* C12: after truncate(path, n) has returned on a regular file, the file's
\* recorded size is n and its chunk records are exactly one record for each
\* sequence number below ceil(n / chunk size).
C12_TruncateKeepsRange ==
    [][\A p \in NamedPaths, n \in TruncateLengths :
         LET r == get_path_ids(p)
             f == Last(r.ids)
         IN  (/\ Truncate(p, n)
              /\ r.err = "OK" /\ f \in DOMAIN files /\ ~files[f].is_directory
              /\ result'.err = "OK")
             => /\ files'[f].size = n
                /\ { docs'[d].file_no : d \in { x \in DOMAIN docs' : docs'[x].file_id = f } }
                      = 0..(chunks_needed(n) - 1)
                /\ Cardinality({ x \in DOMAIN docs' : docs'[x].file_id = f })
                      = chunks_needed(n)]_vars

---------------------------------------------------------------------------
(* Writers to one path, the daemon and reads, without truncation.          *)

\* five bytes that no other write of these runs holds
OverlapBuf == <<3, 4, 3, 4, 3>>
WriterBufs == { <<1>>, <<2, 1>>, OverlapBuf }
WriterOffsets == {0, 1}
WriterReadLengths == {5}

NextWriters ==
    \/ \E p \in WritePaths : AttrRows /\ Create(p)
    \/ \E p \in WritePaths, b \in WriterBufs, o \in WriterOffsets :
          FewWrites /\ WriteCall(p, b, o)
    \/ WriteLastwrite
    \/ WriteSeekLookup
    \/ WriteSeek
    \/ WriteLookup
    \/ WriteBuf
    \/ DaemonCopy
    \/ DaemonNow
    \/ DaemonCheck
    \/ DaemonDel
    \/ DaemonSeek
    \/ DaemonSend
    \/ Tick
    \/ \E p \in WritePaths, n \in WriterReadLengths, o \in WriterOffsets : Read(p, n, o)

SpecWriters == Init /\ [][NextWriters]_vars

\* every write() call that returned has been handed over in an upload the
\* remote store took, and nothing is staged for the path or on its way
AllFlushed(p) ==
    /\ FuseIdle
    /\ key_index(p) = 0
    /\ dpc \notin {"del", "seek", "send"}
    /\ \A w \in 1..Len(written) :
          \E u \in 1..Len(uploads) : uploads[u].sent /\ w \in uploads[u].writes

\* C13: on a file whose first two chunks hold flushed content (a first write
\* that reaches into chunk 1 has been flushed), after a write of five bytes
\* at offset chunk size - 2 and its flush, a read of the file returns the
\* written bytes inside the window and the bytes flushed before outside of it.
C13_PartialOverlap ==
    \A p \in WritePaths, u \in 1..Len(uploads) :
        LET r == get_path_ids(p)
            f == Last(r.ids)
            before == uploads[u].file
            off == tgchunk_size - 2
            v == read_value(p, Len(before) + 5, 0)
        IN  (/\ r.err = "OK" /\ f \in DOMAIN files /\ ~files[f].is_directory
             /\ Len(written) = 2
             /\ \A w \in 1..2 : written[w].path = p /\ written[w].err = "OK"
             /\ files[f].created_at < regions[written[1].rid].lastwrite
             /\ uploads[u].sent /\ uploads[u].path = p /\ uploads[u].writes = {1}
             /\ Len(before) > tgchunk_size
             /\ written[2].rid # written[1].rid
             /\ written[2].offset = off /\ Len(written[2].buf) = 5
             /\ AllFlushed(p))
            => /\ v.err = "OK"
               /\ \A i \in off..(off + 4) :
                     i < Len(v.data) /\ v.data[i + 1] = written[2].buf[i - off + 1]
               /\ \A i \in 0..(Len(before) - 1) :
                     (i < off \/ i >= off + 5)
                        => (i < Len(v.data) /\ v.data[i + 1] = before[i + 1])

---------------------------------------------------------------------------
(* Two files that receive the same writes in opposite orders.              *)

OrderPaths == { <<"/", "a">>, <<"/", "a", "b">> }

\* the calls the kernel makes in these runs, in the order of their arrival:
\* the two files are created, then two writes to disjoint byte ranges go to
\* /a in one order and to /ab in the other; reads follow.  When the clock
\* advances, what the daemon does between and during the calls, and whether
\* the remote store takes a document, is not fixed
OrderCalls ==
    << [op |-> "create", path |-> <<"/", "a">>, buf |-> <<>>, offset |-> 0],
       [op |-> "create", path |-> <<"/", "a", "b">>, buf |-> <<>>, offset |-> 0],
       [op |-> "write", path |-> <<"/", "a">>, buf |-> <<1>>, offset |-> 0],
       [op |-> "write", path |-> <<"/", "a", "b">>, buf |-> <<2>>, offset |-> 1],
       [op |-> "write", path |-> <<"/", "a">>, buf |-> <<2>>, offset |-> 1],
       [op |-> "write", path |-> <<"/", "a", "b">>, buf |-> <<1>>, offset |-> 0] >>

\* the calls of OrderCalls that have returned: no row is deleted in these runs
made == (Cardinality(DOMAIN files) - 1) + Len(written)

\* the write() calls to a path that have returned
calls_to(p) == { w \in 1..Len(written) : written[w].path = p }

OrderReadLengths == {2}
OrderReadOffsets == {0}

NextOrder ==
    \/ \E k \in 1..Len(OrderCalls) :
          /\ k = made + 1
          /\ OrderCalls[k].op = "create"
          /\ Create(OrderCalls[k].path)
    \/ \E k \in 1..Len(OrderCalls) :
          /\ k = made + 1
          /\ OrderCalls[k].op = "write"
          /\ WriteCall(OrderCalls[k].path, OrderCalls[k].buf, OrderCalls[k].offset)
    \/ WriteLastwrite
    \/ WriteSeekLookup
    \/ WriteSeek
    \/ WriteLookup
    \/ WriteBuf
    \/ DaemonCopy
    \/ DaemonNow
    \/ DaemonCheck
    \/ DaemonDel
    \/ DaemonSeek
    \/ DaemonSend
    \/ Tick
    \/ \E p \in OrderPaths, n \in OrderReadLengths, o \in OrderReadOffsets :
          made = Len(OrderCalls) /\ Read(p, n, o)

SpecOrder == Init /\ [][NextOrder]_vars

\* the byte range of a write() call
range_of(w) == { i \in 0..(w.offset + Len(w.buf) - 1) : i >= w.offset }

\* the writes a path received: each one's bytes and offset, whatever the order
writes_to(p) == { <<written[w].buf, written[w].offset>> : w \in calls_to(p) }

\* the path received writes to pairwise disjoint byte ranges, at least two,
\* each returned without error, and all of them have been flushed
DisjointFlushed(p) ==
    /\ Cardinality(calls_to(p)) >= 2
    /\ \A w \in calls_to(p) : written[w].err = "OK"
    /\ \A w \in calls_to(p), x \in calls_to(p) :
          (w # x) => (range_of(written[w]) \cap range_of(written[x]) = {})
    /\ AllFlushed(p)

---------------------------------------------------------------------------
(* Regular files under the root: created, renamed, written, flushed, read, *)
(* truncated and unlinked.  No directory is made, so every node besides    *)
(* the root is a regular file.                                             *)

ReadPaths == { <<"/", "a">>, <<"/", "a", "b">> }
AllReadLengths == {0, 1, 3}
AllReadOffsets == {0, 1, 2}
ReadBufs == { <<1, 2, 1>> }

OneWrite == Len(written) < MaxReadWrites

NextRead ==
    \/ \E p \in ReadPaths, n \in AllReadLengths, o \in AllReadOffsets : Read(p, n, o)
    \/ \E p \in ReadPaths : AttrRows /\ Create(p)
    \/ \E p \in ReadPaths : Unlink(p)
    \/ \E p \in ReadPaths, q \in ReadPaths : Rename(p, q)
    \/ \E p \in ReadPaths, n \in AllReadLengths : Truncate(p, n)
    \/ \E p \in WritePaths, b \in ReadBufs : OneWrite /\ WriteCall(p, b, 0)
    \/ WriteLastwrite
    \/ WriteSeekLookup
    \/ WriteSeek
    \/ WriteLookup
    \/ WriteBuf
    \/ DaemonCopy
    \/ DaemonNow
    \/ DaemonCheck
    \/ DaemonDel
    \/ DaemonSeek
    \/ DaemonSend
    \/ Tick

SpecRead == Init /\ [][NextRead]_vars

Slice(content, offset, length) ==
    LET end == IF offset + length <= Len(content) THEN offset + length ELSE Len(content)
    IN  [i \in 1..(end - offset) |-> content[offset + i]]

---------------------------------------------------------------------------
(* The daemon against the writers.                                         *)

\* C18: when the daemon removes a region from self.tempfiles, the region's
\* last write is older than the idle threshold at that moment.
C18_DrainsIdleOnly ==
    [][LET k == key_index(temp_copy[di].path)
       IN  (dpc = "del" /\ DaemonDel /\ k # 0)
           => /\ regions[tempfiles[k].rid].lastwrite # -1
              /\ clock - regions[tempfiles[k].rid].lastwrite
                    > IdleSeconds * ClockUnits]_vars

DrainBufs == { <<1>> }

NextDrain ==
    \/ \E p \in WritePaths, b \in DrainBufs : FewWrites /\ WriteCall(p, b, 0)
    \/ WriteLastwrite
    \/ WriteSeekLookup
    \/ WriteSeek
    \/ WriteLookup
    \/ WriteBuf
    \/ DaemonCopy
    \/ DaemonNow
    \/ DaemonCheck
    \/ DaemonDel
    \/ DaemonSeek
    \/ DaemonSend
    \/ Tick

\* both threads are scheduled again and again and time passes
DrainFairness ==
    /\ WF_vars(WriteLastwrite) /\ WF_vars(WriteSeekLookup) /\ WF_vars(WriteSeek)
    /\ WF_vars(WriteLookup) /\ WF_vars(WriteBuf)
    /\ WF_vars(DaemonCopy) /\ WF_vars(DaemonNow) /\ WF_vars(DaemonCheck)
    /\ WF_vars(DaemonDel)
    /\ WF_vars(DaemonSeek) /\ WF_vars(DaemonSend)
    /\ WF_vars(Tick)

SpecDrain == Init /\ [][NextDrain]_vars /\ DrainFairness

\* the clock of these runs has an advance left: a region stamped by now
\* passes the idle threshold
CanStillIdle == ticks < MaxTicks

\* the region of write w has received a further write
WrittenAgain(w) ==
    \E x \in 1..Len(written) :
        x > w /\ written[x].err = "OK" /\ written[x].rid = written[w].rid

\* C19: the bytes of every write() call that returned, staged in a region
\* that receives no further write, are eventually in an upload the remote
\* store took; and the bytes of an upload that failed are eventually in a
\* later upload that the remote store took.
C19_EventuallyUploaded ==
    /\ \A w \in 1..MaxWrites :
          (Len(written) >= w /\ written[w].err = "OK" /\ CanStillIdle)
             ~> (\/ \E u \in 1..Len(uploads) : uploads[u].sent /\ w \in uploads[u].writes
                 \/ WrittenAgain(w))
    /\ \A f \in 1..MaxWrites :
          (Len(uploads) >= f /\ ~uploads[f].sent)
             ~> (\E u \in 1..Len(uploads) :
                    /\ u > f /\ uploads[u].sent
                    /\ uploads[u].file = uploads[f].file
                    /\ uploads[u].writes = uploads[f].writes)

---------------------------------------------------------------------------
(* The chunk arithmetic of write(), lines 315-355, which stands after the  *)
(* return of line 306.  It is computed here for the offset and the buffer  *)
(* of the write() call in progress.                                        *)

\* the largest chunk size the arithmetic is computed for
MaxChunkSize == 3
ChunkSizes == 1..MaxChunkSize

\* line 315
nof_chunks_of(chunk_size, len) ==
    (len \div chunk_size) + (IF len # chunk_size THEN 1 ELSE 0)

\* lines 316-317
first_chunk_no_of(chunk_size, offset) ==
    (offset - (offset % chunk_size)) \div chunk_size

\* lines 337-351 for chunk x: where the chunk is written from (start_chunk)
\* and the slice buf[start_buf:last_buf] written there; "is" on the small
\* integers of these runs is equality
chunk_window(chunk_size, offset, len, x) ==
    LET first_chunk_no == first_chunk_no_of(chunk_size, offset)
        nof_chunks == nof_chunks_of(chunk_size, len)
    IN  IF x = 0
        THEN [chunk |-> x,
              start_chunk |-> offset % chunk_size,
              last_chunk |-> chunk_size,
              start_buf |-> (offset % chunk_size) + first_chunk_no * chunk_size,
              last_buf |-> (first_chunk_no + 1) * chunk_size]
        ELSE IF x = first_chunk_no + nof_chunks - 1
        THEN [chunk |-> x,
              start_chunk |-> 0,
              last_chunk |-> chunk_size,
              start_buf |-> x * chunk_size,
              last_buf |-> ((x + 1) * chunk_size) - 1]
        ELSE [chunk |-> x,
              start_chunk |-> 0,
              last_chunk |-> (offset + len) % chunk_size,
              start_buf |-> x * chunk_size,
              last_buf |-> (x * chunk_size) + ((offset + len) % chunk_size)]

\* lines 330-355: the windows of the chunks first_chunk_no ..
\* first_chunk_no + nof_chunks - 1
chunk_windows(chunk_size, offset, len) ==
    LET first_chunk_no == first_chunk_no_of(chunk_size, offset)
        nof_chunks == nof_chunks_of(chunk_size, len)
    IN  [i \in 1..nof_chunks |->
            chunk_window(chunk_size, offset, len, first_chunk_no + i - 1)]

\* line 355: the indices of buf that buf[start_buf:last_buf] takes
buf_slice(w, len) == { b \in 0..(len - 1) : b >= w.start_buf /\ b < w.last_buf }

\* C20: for every chunk size, the windows computed for the offset and the
\* buffer of a write() call take every byte of the buffer exactly once, put
\* byte b of the buffer at byte offset + b of the file, and lie within their
\* chunks.
C20_WindowsCover ==
    \A chunk_size \in ChunkSizes :
        LET len == Len(wcall.buf)
            ws == chunk_windows(chunk_size, wcall.offset, len)
        IN  (wcall.pc # "idle")
            => /\ \A b \in 0..(len - 1) :
                     Cardinality({ i \in 1..Len(ws) : b \in buf_slice(ws[i], len) }) = 1
               /\ \A i \in 1..Len(ws) :
                     /\ \A b \in buf_slice(ws[i], len) :
                           (ws[i].chunk * chunk_size) + ws[i].start_chunk
                               + (b - ws[i].start_buf) = wcall.offset + b
                     /\ ws[i].start_chunk >= 0
                     /\ ws[i].start_chunk + Cardinality(buf_slice(ws[i], len)) <= chunk_size

====
